---- MODULE Spec2Model ----
(***************************************************************************)
(* Model of the Lottery contract of src/lottery.py (SmartPy).              *)
(*                                                                         *)
(* The contract storage is the record admin / players / ticket_cost /      *)
(* tickets_available / max_tickets.  Each entry point is one transaction:  *)
(* the attached amount is credited to the contract balance, the code runs, *)
(* and a failing sp.verify (or a failing sp.as_nat / map lookup) aborts    *)
(* the whole transaction: storage and balance keep their values and no     *)
(* transfer is emitted.                                                    *)
(*                                                                         *)
(* op, result and transfers record the last transaction (the call, its     *)
(* outcome and the transfers it emitted), so that properties of a single   *)
(* call can be stated over a step.                                         *)
(***************************************************************************)
EXTENDS Integers, Sequences, FiniteSets, TLC

VARIABLES admin, players, ticket_cost, tickets_available, max_tickets,
          balance, op, result, transfers

storage == <<admin, players, ticket_cost, tickets_available, max_tickets>>
vars == <<admin, players, ticket_cost, tickets_available, max_tickets,
          balance, op, result, transfers>>

----------------------------------------------------------------------------
(* Bounds of the explored inputs *)

\* the amounts (in tez) attached to a buy_tickets call are 0..MaxAmount and
\* the amount of the first purchase of the test scenario
MaxAmount == 3
\* largest n passed to buy_tickets
MaxN == 6
\* largest new_cost passed to update_ticket_cost
MaxCost == 2
\* largest new_max passed to update_max_tickets
MaxNewMax == 2
\* largest timestamp (sp.now) of an end_game call
MaxTime == 3
\* largest amount attached to update_ticket_cost / update_max_tickets /
\* end_game, and largest balance the contract holds outside a round
MaxExtra == 1

----------------------------------------------------------------------------
(* Identities and inputs *)

AdminAddress == "tz1fcNTRug7RXfixJWttCcReTVXSLt2UozSU"
Address == {AdminAddress, "alice"}

\* lottery.buy_tickets(n = 1).run(amount = sp.tez(10), sender = bob)
ScenarioAmount == 10
Amounts == (0..MaxAmount) \cup {ScenarioAmount}

\* the error raised by a failing sp.as_nat
AsNatError == "AS_NAT"
\* the error raised by reading a key that is not in the map
MissingKeyError == "MISSING_KEY"
\* the error raised by % with a zero divisor
DivisionByZeroError == "DIVISION_BY_ZERO"

NoTicketsAvailable == "NO TICKETS AVAILABLE"
InsufficientPayment == "INVALID AMOUNT"
RequestExceedsSupply == "REQUESTED AMOUNT OF TICKETS EXCEED THE REMAINING AMOUNT OF TICKETS"
AuthorizationError == "THIS ENTRY POINT CAN ONLY BE CALLED BY THE CONTRACT ADMIN"
StateConflictCost == "CANNOT UPDATE TICKET COST WHILE A GAME IS ONGOING"
StateConflictMax == "CANNOT UPDATE MAXIMUM AMOUNT OF TICKETS WHILE A GAME IS ONGOING"
InvalidParameterError == "MAXIMUM AMOUNT OF TICKETS CANNOT BE ZERO"
RoundNotCompleteError == "GAME IS YET TO END"

----------------------------------------------------------------------------
(* Transaction outcomes *)

\* an aborted transaction: storage and balance as before, nothing sent
Fail(msg) ==
    [result |-> msg, players |-> players, ticket_cost |-> ticket_cost,
     tickets_available |-> tickets_available, max_tickets |-> max_tickets,
     balance |-> balance, transfers |-> <<>>]

\* variant of Verify: the failed check only sets the message and the rest
\* of the entry point still runs
Verify_continue(cond, msg, rest) ==
    IF cond THEN rest ELSE [rest EXCEPT !.result = msg]

\* sp.verify(cond, msg): continue with rest when cond holds, abort otherwise
Verify(cond, msg, rest) == IF cond THEN rest ELSE Fail(msg)

\* size of a map: sp.len(m)
Len_(m) == Cardinality(DOMAIN m)

\* m[k] = v on a map
MapSet(m, k, v) == [x \in (DOMAIN m) \cup {k} |-> IF x = k THEN v ELSE m[x]]

\* the empty map
EmptyMap == [x \in {} |-> AdminAddress]

\* total amount of a list of transfers
RECURSIVE SumAmounts(_)
SumAmounts(ts) == IF ts = <<>> THEN 0 ELSE Head(ts).amount + SumAmounts(Tail(ts))

\* balance after a successful transaction: the attached amount is credited,
\* the emitted transfers are debited
Settle(amount, ts) == balance + amount - SumAmounts(ts)

----------------------------------------------------------------------------
(* buy_tickets *)

\* total_cost = sp.mul(params.n, self.data.ticket_cost)
total_cost(n) == n * ticket_cost

\* variant of add_players: tickets are numbered from 1
RECURSIVE add_players_one_based(_, _, _)
add_players_one_based(m, n, sender) ==
    IF n = 0 THEN m
    ELSE add_players_one_based(MapSet(m, Len_(m) + 1, sender), n - 1, sender)

\* variant of add_players: the key is computed once, before the loop
add_players_fixed_key(m, n, sender) ==
    IF n = 0 THEN m ELSE MapSet(m, Len_(players), sender)

\* sp.for _ in sp.range(0, n, 1): players[sp.len(players)] = sp.sender
RECURSIVE add_players(_, _, _)
add_players(m, n, sender) ==
    IF n = 0 THEN m
    ELSE add_players(MapSet(m, Len_(m), sender), n - 1, sender)

\* variant of extra_balance: the price of one ticket is charged, whatever n
extra_balance_one_ticket(amount, n) == amount - ticket_cost

\* extra_balance = sp.amount - total_cost
extra_balance(amount, n) == amount - total_cost(n)

\* variant of refund: the extra amount is kept
refund_none(sender, amount, n) == <<>>

\* sp.if extra_balance > sp.mutez(0): sp.send(sp.sender, extra_balance)
refund(sender, amount, n) ==
    IF extra_balance(amount, n) > 0
    THEN <<[to |-> sender, amount |-> extra_balance(amount, n)]>>
    ELSE <<>>

\* variant of buy_tickets that checks the supply before the payment
buy_tickets_supply_first(sender, amount, n) ==
    Verify(tickets_available > 0, NoTicketsAvailable,
    Verify(tickets_available >= n, RequestExceedsSupply,
    Verify(amount >= total_cost(n), InsufficientPayment,
        IF tickets_available - n < 0 THEN Fail(AsNatError)
        ELSE [result |-> "OK",
              players |-> add_players(players, n, sender),
              ticket_cost |-> ticket_cost,
              tickets_available |-> tickets_available - n,
              max_tickets |-> max_tickets,
              balance |-> Settle(amount, refund(sender, amount, n)),
              transfers |-> refund(sender, amount, n)])))

\* variant of buy_tickets without the check of n against the supply
buy_tickets_no_supply_check(sender, amount, n) ==
    Verify(tickets_available > 0, NoTicketsAvailable,
    Verify(amount >= total_cost(n), InsufficientPayment,
        IF tickets_available - n < 0 THEN Fail(AsNatError)
        ELSE [result |-> "OK",
              players |-> add_players(players, n, sender),
              ticket_cost |-> ticket_cost,
              tickets_available |-> tickets_available - n,
              max_tickets |-> max_tickets,
              balance |-> Settle(amount, refund(sender, amount, n)),
              transfers |-> refund(sender, amount, n)]))

\* variant of buy_tickets that checks the payment before the supply of
\* tickets
buy_tickets_payment_first(sender, amount, n) ==
    Verify(amount >= total_cost(n), InsufficientPayment,
    Verify(tickets_available > 0, NoTicketsAvailable,
    Verify(tickets_available >= n, RequestExceedsSupply,
        IF tickets_available - n < 0 THEN Fail(AsNatError)
        ELSE [result |-> "OK",
              players |-> add_players(players, n, sender),
              ticket_cost |-> ticket_cost,
              tickets_available |-> tickets_available - n,
              max_tickets |-> max_tickets,
              balance |-> Settle(amount, refund(sender, amount, n)),
              transfers |-> refund(sender, amount, n)])))

buy_tickets(sender, amount, n) ==
    Verify(tickets_available > 0, NoTicketsAvailable,
    Verify(amount >= total_cost(n), InsufficientPayment,
    Verify(tickets_available >= n, RequestExceedsSupply,
        IF tickets_available - n < 0 THEN Fail(AsNatError)
        ELSE [result |-> "OK",
              players |-> add_players(players, n, sender),
              ticket_cost |-> ticket_cost,
              tickets_available |-> tickets_available - n,
              max_tickets |-> max_tickets,
              balance |-> Settle(amount, refund(sender, amount, n)),
              transfers |-> refund(sender, amount, n)])))

----------------------------------------------------------------------------
(* update_ticket_cost *)

\* variant of update_ticket_cost without the "game is ongoing" check
update_ticket_cost_no_round_check(sender, amount, new_cost) ==
    Verify(sender = admin, AuthorizationError,
        [result |-> "OK",
         players |-> players,
         ticket_cost |-> new_cost,
         tickets_available |-> tickets_available,
         max_tickets |-> max_tickets,
         balance |-> Settle(amount, <<>>),
         transfers |-> <<>>])

update_ticket_cost(sender, amount, new_cost) ==
    Verify(sender = admin, AuthorizationError,
    Verify(tickets_available = max_tickets, StateConflictCost,
        [result |-> "OK",
         players |-> players,
         ticket_cost |-> new_cost,
         tickets_available |-> tickets_available,
         max_tickets |-> max_tickets,
         balance |-> Settle(amount, <<>>),
         transfers |-> <<>>]))

----------------------------------------------------------------------------
(* update_max_tickets *)

\* variant of update_max_tickets that leaves tickets_available alone
update_max_tickets_no_reset(sender, amount, new_max) ==
    Verify(sender = admin, AuthorizationError,
    Verify(tickets_available = max_tickets, StateConflictMax,
    Verify(new_max # 0, InvalidParameterError,
        [result |-> "OK",
         players |-> players,
         ticket_cost |-> ticket_cost,
         tickets_available |-> tickets_available,
         max_tickets |-> new_max,
         balance |-> Settle(amount, <<>>),
         transfers |-> <<>>])))

\* variant of update_max_tickets that checks the sender last
update_max_tickets_auth_last(sender, amount, new_max) ==
    Verify(tickets_available = max_tickets, StateConflictMax,
    Verify(new_max # 0, InvalidParameterError,
    Verify(sender = admin, AuthorizationError,
        [result |-> "OK",
         players |-> players,
         ticket_cost |-> ticket_cost,
         tickets_available |-> new_max,
         max_tickets |-> new_max,
         balance |-> Settle(amount, <<>>),
         transfers |-> <<>>])))

\* variant of update_max_tickets without the zero check
update_max_tickets_no_zero_check(sender, amount, new_max) ==
    Verify(sender = admin, AuthorizationError,
    Verify(tickets_available = max_tickets, StateConflictMax,
        [result |-> "OK",
         players |-> players,
         ticket_cost |-> ticket_cost,
         tickets_available |-> new_max,
         max_tickets |-> new_max,
         balance |-> Settle(amount, <<>>),
         transfers |-> <<>>]))

update_max_tickets(sender, amount, new_max) ==
    Verify(sender = admin, AuthorizationError,
    Verify(tickets_available = max_tickets, StateConflictMax,
    Verify(new_max # 0, InvalidParameterError,
        [result |-> "OK",
         players |-> players,
         ticket_cost |-> ticket_cost,
         tickets_available |-> new_max,
         max_tickets |-> new_max,
         balance |-> Settle(amount, <<>>),
         transfers |-> <<>>])))

----------------------------------------------------------------------------
(* end_game *)

\* variant of winner_id: modulus off by one
winner_id_off_by_one(now) == (now - 0) % (max_tickets + 1)

\* winner_id = sp.as_nat(sp.now - sp.timestamp(0)) % self.data.max_tickets
winner_id(now) == (now - 0) % max_tickets

\* variant of payout: the stake of the round is sent instead of sp.balance
payout_stake_only(winner_address, amount) ==
    <<[to |-> winner_address, amount |-> max_tickets * ticket_cost]>>

\* sp.send(winner_address, sp.balance); sp.balance includes the amount
\* attached to the running transaction
payout(winner_address, amount) ==
    <<[to |-> winner_address, amount |-> balance + amount]>>

\* variant of end_game that does not reset tickets_available
end_game_no_reset(sender, amount, now) ==
    Verify(tickets_available = 0, RoundNotCompleteError,
        IF now - 0 < 0 THEN Fail(AsNatError)
        ELSE IF max_tickets = 0 THEN Fail(DivisionByZeroError)
        ELSE IF winner_id(now) \notin DOMAIN players THEN Fail(MissingKeyError)
        ELSE [result |-> "OK",
              players |-> EmptyMap,
              ticket_cost |-> ticket_cost,
              tickets_available |-> tickets_available,
              max_tickets |-> max_tickets,
              balance |-> Settle(amount, payout(players[winner_id(now)], amount)),
              transfers |-> payout(players[winner_id(now)], amount)])

\* variant of end_game that resets the round to the initial capacity
end_game_initial_capacity(sender, amount, now) ==
    Verify(tickets_available = 0, RoundNotCompleteError,
        IF now - 0 < 0 THEN Fail(AsNatError)
        ELSE IF max_tickets = 0 THEN Fail(DivisionByZeroError)
        ELSE IF winner_id(now) \notin DOMAIN players THEN Fail(MissingKeyError)
        ELSE [result |-> "OK",
              players |-> EmptyMap,
              ticket_cost |-> ticket_cost,
              tickets_available |-> 5,
              max_tickets |-> 5,
              balance |-> Settle(amount, payout(players[winner_id(now)], amount)),
              transfers |-> payout(players[winner_id(now)], amount)])

\* variant of end_game that keeps the players of the finished round
end_game_keeps_players(sender, amount, now) ==
    Verify(tickets_available = 0, RoundNotCompleteError,
        IF now - 0 < 0 THEN Fail(AsNatError)
        ELSE IF max_tickets = 0 THEN Fail(DivisionByZeroError)
        ELSE IF winner_id(now) \notin DOMAIN players THEN Fail(MissingKeyError)
        ELSE [result |-> "OK",
              players |-> players,
              ticket_cost |-> ticket_cost,
              tickets_available |-> max_tickets,
              max_tickets |-> max_tickets,
              balance |-> Settle(amount, payout(players[winner_id(now)], amount)),
              transfers |-> payout(players[winner_id(now)], amount)])

end_game(sender, amount, now) ==
    Verify(tickets_available = 0, RoundNotCompleteError,
        IF now - 0 < 0 THEN Fail(AsNatError)
        ELSE IF max_tickets = 0 THEN Fail(DivisionByZeroError)
        ELSE IF winner_id(now) \notin DOMAIN players THEN Fail(MissingKeyError)
        ELSE [result |-> "OK",
              players |-> EmptyMap,
              ticket_cost |-> ticket_cost,
              tickets_available |-> max_tickets,
              max_tickets |-> max_tickets,
              balance |-> Settle(amount, payout(players[winner_id(now)], amount)),
              transfers |-> payout(players[winner_id(now)], amount)])

----------------------------------------------------------------------------
(* The state machine *)

Init ==
    /\ admin = AdminAddress
    /\ players = EmptyMap
    /\ ticket_cost = 1
    /\ tickets_available = 5
    /\ max_tickets = 5
    /\ balance = 0
    /\ op = [name |-> "originate"]
    /\ result = "OK"
    /\ transfers = <<>>

\* one transaction: the call and the outcome of the entry point
Apply(call, out) ==
    /\ op' = call
    /\ result' = out.result
    /\ transfers' = out.transfers
    /\ players' = out.players
    /\ ticket_cost' = out.ticket_cost
    /\ tickets_available' = out.tickets_available
    /\ max_tickets' = out.max_tickets
    /\ balance' = out.balance
    /\ admin' = admin

BuyTickets ==
    \E sender \in Address, amount \in Amounts, n \in 0..MaxN :
        Apply([name |-> "buy_tickets", sender |-> sender, amount |-> amount,
               n |-> n],
              buy_tickets(sender, amount, n))

UpdateTicketCost ==
    \E sender \in Address, amount \in 0..MaxExtra, new_cost \in 0..MaxCost :
        /\ balance + amount <= MaxExtra \/ tickets_available # max_tickets
        /\ Apply([name |-> "update_ticket_cost", sender |-> sender,
                  amount |-> amount, new_cost |-> new_cost],
                 update_ticket_cost(sender, amount, new_cost))

UpdateMaxTickets ==
    \E sender \in Address, amount \in 0..MaxExtra, new_max \in 0..MaxNewMax :
        /\ balance + amount <= MaxExtra \/ tickets_available # max_tickets
        /\ Apply([name |-> "update_max_tickets", sender |-> sender,
                  amount |-> amount, new_max |-> new_max],
                 update_max_tickets(sender, amount, new_max))

EndGame ==
    \E sender \in Address, amount \in 0..MaxExtra, now \in (-1)..MaxTime :
        Apply([name |-> "end_game", sender |-> sender, amount |-> amount,
               now |-> now],
              end_game(sender, amount, now))

Next == BuyTickets \/ UpdateTicketCost \/ UpdateMaxTickets \/ EndGame

Spec == Init /\ [][Next]_vars

----------------------------------------------------------------------------
(* Properties *)

\* the calls of the Configuration Manager
IsConfigCall(c) == c.name \in {"update_ticket_cost", "update_max_tickets"}

\* the values a map holds
Range(m) == {m[k] : k \in DOMAIN m}

\* C1: in every reachable state the size of the ledger plus
\* tickets_available equals max_tickets.
C1_LedgerConsistent == Len_(players) + tickets_available = max_tickets

\* C1 witness: a round in progress after capacity was changed, with
\* tickets sold and tickets left
C1_Witness ==
    /\ op.name = "buy_tickets" /\ result = "OK"
    /\ max_tickets = 2 /\ Len_(players) = 1 /\ tickets_available = 1

\* C2: a configuration call made while a round is in progress
\* (tickets_available # max_tickets) is rejected for every caller, with the
\* "game is ongoing" error for the admin, and ticket_cost, max_tickets and
\* tickets_available keep their values.
C2_NoConfigMidRound ==
    [][(IsConfigCall(op') /\ tickets_available # max_tickets)
        => /\ result' # "OK"
           /\ op'.sender = admin =>
                result' = (IF op'.name = "update_ticket_cost"
                           THEN StateConflictCost ELSE StateConflictMax)
           /\ UNCHANGED <<ticket_cost, max_tickets, tickets_available>>]_vars

\* C2 witness: the admin is refused update_ticket_cost with 4 of 5 tickets
\* left
C2_Witness ==
    /\ op.name = "update_ticket_cost" /\ op.sender = admin
    /\ result = StateConflictCost
    /\ tickets_available = 4 /\ max_tickets = 5

\* C3: a configuration call by anyone but the admin is rejected with the
\* authorization error and changes nothing, whatever the round state and
\* the argument are.
C3_NonAdminRejected ==
    [][(IsConfigCall(op') /\ op'.sender # admin)
        => /\ result' = AuthorizationError
           /\ UNCHANGED <<storage, balance>>
           /\ transfers' = <<>>]_vars

\* C3 witness: a non-admin update_max_tickets(0) during a round reports the
\* authorization error, not the round or the zero error
C3_Witness ==
    /\ op.name = "update_max_tickets" /\ op.sender # admin /\ op.new_max = 0
    /\ tickets_available # max_tickets
    /\ result = AuthorizationError

\* C4: update_max_tickets(0) never succeeds and leaves the state unchanged,
\* the admin calling it with no round in progress gets the zero-capacity
\* error, and max_tickets >= 1 in every reachable state.
C4_NoZeroCapacity ==
    /\ [](max_tickets >= 1)
    /\ [][(op'.name = "update_max_tickets" /\ op'.new_max = 0)
           => /\ result' # "OK"
              /\ (op'.sender = admin /\ tickets_available = max_tickets)
                    => result' = InvalidParameterError
              /\ UNCHANGED <<storage, balance>>]_vars

\* C4 witness: the admin is refused update_max_tickets(0) with no round in
\* progress
C4_Witness ==
    /\ op.name = "update_max_tickets" /\ op.sender = admin /\ op.new_max = 0
    /\ result = InvalidParameterError
    /\ tickets_available = max_tickets

\* C5: end_game called while tickets_available > 0 is rejected with the
\* "game is yet to end" error and changes nothing; a successful end_game
\* leaves an empty ledger and tickets_available = max_tickets.
C5_EndGameOnlyWhenSoldOut ==
    [][op'.name = "end_game"
        => /\ tickets_available > 0 =>
                /\ result' = RoundNotCompleteError
                /\ UNCHANGED <<storage, balance>>
                /\ transfers' = <<>>
           /\ result' = "OK" =>
                /\ tickets_available = 0
                /\ players' = EmptyMap
                /\ tickets_available' = max_tickets']_vars

\* C5 witness: a successful end_game
C5_Witness ==
    /\ op.name = "end_game" /\ result = "OK"
    /\ players = EmptyMap /\ tickets_available = max_tickets

\* C6: when tickets_available = 0, for every time >= 0 the winner index
\* time mod max_tickets is a key of the ledger; an end_game at such a time
\* succeeds and pays the owner recorded under that index.
C6_WinnerInLedger ==
    /\ [](tickets_available = 0 =>
            \A t \in 0..(2 * max_tickets + 1) :
                winner_id(t) \in DOMAIN players)
    /\ [][(op'.name = "end_game" /\ tickets_available = 0 /\ op'.now >= 0)
           => /\ result' = "OK"
              /\ Len(transfers') = 1
              /\ transfers'[1].to = players[op'.now % max_tickets]
              /\ transfers'[1].to \in Range(players)]_vars

\* C6 witness: a draw whose time wraps around the capacity and picks a
\* ticket of a round with two different owners
C6_Witness ==
    /\ op.name = "end_game" /\ result = "OK"
    /\ op.now >= max_tickets /\ op.now % max_tickets # 0
    /\ transfers[1].to # op.sender

\* C7: a successful end_game emits exactly one transfer, of the whole
\* balance the contract holds during the call, and leaves the balance at 0.
C7_FullPayout ==
    [][(op'.name = "end_game" /\ result' = "OK")
        => /\ Len(transfers') = 1
           /\ transfers'[1].amount = balance + op'.amount
           /\ balance' = 0]_vars

\* C7 witness: a payout that is larger than the stake of the round
C7_Witness ==
    /\ op.name = "end_game" /\ result = "OK"
    /\ Len(transfers) = 1
    /\ transfers[1].amount > max_tickets * ticket_cost
    /\ balance = 0

\* C8: a successful buy_tickets(n) paying amount refunds exactly
\* amount - n * ticket_cost to the caller (no transfer when that is 0) and
\* raises the balance by exactly n * ticket_cost.
C8_ExactRefund ==
    [][(op'.name = "buy_tickets" /\ result' = "OK")
        => /\ transfers' =
                (IF op'.amount - op'.n * ticket_cost = 0 THEN <<>>
                 ELSE <<[to |-> op'.sender,
                         amount |-> op'.amount - op'.n * ticket_cost]>>)
           /\ balance' = balance + op'.n * ticket_cost]_vars

\* C8 witness: capacity 5, cost 1, one ticket bought paying 10: 9 refunded,
\* 4 tickets left
C8_Witness ==
    /\ op = [name |-> "buy_tickets", sender |-> "alice", amount |-> 10, n |-> 1]
    /\ result = "OK"
    /\ max_tickets = 5 /\ ticket_cost = 1 /\ tickets_available = 4
    /\ transfers = <<[to |-> "alice", amount |-> 9]>>
    /\ balance = 1

\* C9: a rejected call of any entry point leaves the storage and the
\* balance as they were and emits no transfer.
C9_RejectedChangesNothing ==
    [][result' # "OK"
        => /\ UNCHANGED <<storage, balance>>
           /\ transfers' = <<>>]_vars

\* C9 witness: a buy_tickets rejected for exceeding the supply during a
\* round; none of its tickets are recorded
C9_Witness ==
    /\ op.name = "buy_tickets" /\ result = RequestExceedsSupply
    /\ op.n > tickets_available
    /\ Len_(players) = 2 /\ tickets_available = 3
    /\ op.sender \notin Range(players)

\* C10: a successful buy_tickets(n) by c from a ledger of size s adds
\* exactly the keys s .. s+n-1, each mapped to c, keeps every other entry
\* and lowers tickets_available by n.
C10_ContiguousAppend ==
    [][(op'.name = "buy_tickets" /\ result' = "OK")
        => /\ DOMAIN players' =
                DOMAIN players \cup (Len_(players) .. (Len_(players) + op'.n - 1))
           /\ \A k \in Len_(players) .. (Len_(players) + op'.n - 1) :
                k \notin DOMAIN players /\ players'[k] = op'.sender
           /\ \A k \in DOMAIN players : players'[k] = players[k]
           /\ tickets_available' = tickets_available - op'.n]_vars

\* C10 witness: several tickets appended to a ledger that holds tickets of
\* another owner
C10_Witness ==
    /\ op.name = "buy_tickets" /\ result = "OK" /\ op.n = 3
    /\ Len_(players) = 5
    /\ players[0] # op.sender /\ players[1] # op.sender
    /\ \A k \in 2..4 : players[k] = op.sender

\* C11: when tickets_available = 0 every buy_tickets call fails with the
\* "no tickets available" error, every configuration call fails and only
\* end_game can succeed; when tickets_available = max_tickets end_game
\* fails.
C11_LegalStates ==
    [][/\ tickets_available = 0 =>
            /\ op'.name = "buy_tickets" => result' = NoTicketsAvailable
            /\ IsConfigCall(op') => result' # "OK"
            /\ result' = "OK" => op'.name = "end_game"
       /\ (tickets_available = max_tickets /\ op'.name = "end_game")
            => result' = RoundNotCompleteError]_vars

\* C11 witness: with all tickets sold, a buy_tickets(0) that pays nothing
\* is refused for lack of tickets
C11_Witness ==
    /\ tickets_available = 0 /\ Len_(players) = max_tickets
    /\ op.name = "buy_tickets" /\ op.n = 0 /\ op.amount = 0
    /\ result = NoTicketsAvailable

\* C12: a successful end_game keeps ticket_cost, max_tickets and admin,
\* empties the ledger and sets tickets_available = max_tickets; in the
\* state it leaves, update_ticket_cost by the admin succeeds and
\* update_max_tickets by the admin succeeds for every new_max # 0.
C12_FreshRoundAfterEndGame ==
    /\ [][(op'.name = "end_game" /\ result' = "OK")
           => /\ UNCHANGED <<ticket_cost, max_tickets, admin>>
              /\ players' = EmptyMap
              /\ tickets_available' = max_tickets']_vars
    /\ []((op.name = "end_game" /\ result = "OK")
           => /\ \A c \in 0..MaxCost :
                    update_ticket_cost(admin, 0, c).result = "OK"
              /\ \A m \in 1..MaxNewMax :
                    update_max_tickets(admin, 0, m).result = "OK")
    /\ [][(op.name = "end_game" /\ result = "OK" /\ IsConfigCall(op')
            /\ op'.sender = admin)
           => result' \in {"OK", InvalidParameterError}]_vars

\* C12 witness: the state left by the draw of a round whose cost and
\* capacity were not the initial ones
C12_Witness ==
    /\ op.name = "end_game" /\ result = "OK"
    /\ ticket_cost = 2 /\ max_tickets = 2
    /\ players = EmptyMap /\ tickets_available = 2

\* C13: ticket_cost > 0 in every reachable state.
\* (The code accepts update_ticket_cost(0) from the admin.)
C13_TicketCostPositive == ticket_cost > 0

\* C14: every successful buy_tickets(n) has n >= 1, lowers
\* tickets_available and leaves a round in progress.
\* (The code accepts buy_tickets(0) whenever tickets are available.)
C14_BuyAtLeastOne ==
    [][(op'.name = "buy_tickets" /\ result' = "OK")
        => /\ op'.n >= 1
           /\ tickets_available' < tickets_available
           /\ tickets_available' < max_tickets']_vars

\* C15: 0 <= tickets_available <= max_tickets in every reachable state, and
\* the subtraction tickets_available - n of buy_tickets never fails.
C15_AvailableInRange ==
    /\ tickets_available \in 0..max_tickets
    /\ op.name = "buy_tickets" => result # AsNatError

\* C15 witness: a purchase of all the tickets that are left
C15_Witness ==
    /\ op.name = "buy_tickets" /\ result = "OK" /\ op.n = 3
    /\ tickets_available = 0 /\ max_tickets = 5

\* C16: buy_tickets reports the first violated check in the order no
\* tickets, payment, supply: with n > tickets_available > 0 the error is the
\* supply error exactly when amount >= n * ticket_cost and the payment error
\* otherwise; with tickets_available = 0 it is the "no tickets" error.
C16_CheckOrder ==
    [][op'.name = "buy_tickets"
        => /\ tickets_available = 0 => result' = NoTicketsAvailable
           /\ (tickets_available > 0 /\ op'.n > tickets_available)
                => /\ result' \in {RequestExceedsSupply, InsufficientPayment}
                   /\ result' = RequestExceedsSupply
                        <=> op'.amount >= op'.n * ticket_cost
           /\ (tickets_available > 0 /\ op'.amount < op'.n * ticket_cost)
                => result' = InsufficientPayment]_vars

\* C16 witness: a request for more tickets than are left that does not pay
\* for them is refused for the payment
C16_Witness ==
    /\ op.name = "buy_tickets" /\ op.n > tickets_available
    /\ tickets_available > 0 /\ ticket_cost > 0
    /\ op.amount < op.n * ticket_cost /\ op.amount >= tickets_available * ticket_cost
    /\ result = InsufficientPayment

\* C17: the keys of the ledger are exactly 0 .. size-1 in every reachable
\* state; the ledger changes only by a buy_tickets that adds keys and keeps
\* the entries it had, or by an end_game that empties it.
C17_LedgerContiguous ==
    /\ [](DOMAIN players = 0..(Len_(players) - 1))
    /\ [][\/ players' = players
          \/ /\ op'.name = "buy_tickets" /\ result' = "OK"
             /\ DOMAIN players \subseteq DOMAIN players'
             /\ \A k \in DOMAIN players : players'[k] = players[k]
             /\ \A k \in DOMAIN players' \ DOMAIN players :
                    k >= Len_(players)
          \/ /\ op'.name = "end_game" /\ result' = "OK"
             /\ players' = EmptyMap]_vars

\* C17 witness: a ledger filled by purchases of both identities
C17_Witness ==
    /\ DOMAIN players = 0..4
    /\ players[0] # players[1] /\ players[3] # players[4]

\* C18: admin never changes; buy_tickets and end_game keep ticket_cost and
\* max_tickets; a successful update_ticket_cost changes only ticket_cost in
\* the storage; a successful update_max_tickets sets max_tickets and
\* tickets_available to new_max and changes nothing else; ticket_cost and
\* max_tickets are constant over every step taken while a round is in
\* progress.
C18_Frame ==
    [][/\ admin' = admin
       /\ op'.name \in {"buy_tickets", "end_game"}
            => UNCHANGED <<ticket_cost, max_tickets>>
       /\ (op'.name = "update_ticket_cost" /\ result' = "OK")
            => /\ ticket_cost' = op'.new_cost
               /\ UNCHANGED <<admin, players, tickets_available, max_tickets>>
       /\ (op'.name = "update_max_tickets" /\ result' = "OK")
            => /\ max_tickets' = op'.new_max
               /\ tickets_available' = op'.new_max
               /\ UNCHANGED <<admin, players, ticket_cost>>
       /\ tickets_available < max_tickets
            => UNCHANGED <<ticket_cost, max_tickets>>]_vars

\* C18 witness: a draw of a round whose cost and capacity had been changed
\* by the admin
C18_Witness ==
    /\ op.name = "end_game" /\ result = "OK"
    /\ ticket_cost = 0 /\ max_tickets = 1

----------------------------------------------------------------------------
(* The contract when value enters only through buy_tickets: the other      *)
(* entry points are called with no amount attached.                        *)

UpdateTicketCostNoAmount ==
    \E sender \in Address, new_cost \in 0..MaxCost :
        Apply([name |-> "update_ticket_cost", sender |-> sender,
               amount |-> 0, new_cost |-> new_cost],
              update_ticket_cost(sender, 0, new_cost))

UpdateMaxTicketsNoAmount ==
    \E sender \in Address, new_max \in 0..MaxNewMax :
        Apply([name |-> "update_max_tickets", sender |-> sender,
               amount |-> 0, new_max |-> new_max],
              update_max_tickets(sender, 0, new_max))

EndGameNoAmount ==
    \E sender \in Address, now \in (-1)..MaxTime :
        Apply([name |-> "end_game", sender |-> sender, amount |-> 0,
               now |-> now],
              end_game(sender, 0, now))

NextBuyOnly ==
    BuyTickets \/ UpdateTicketCostNoAmount \/ UpdateMaxTicketsNoAmount
        \/ EndGameNoAmount

SpecBuyOnly == Init /\ [][NextBuyOnly]_vars

\* C19: when value enters only through buy_tickets, the balance equals
\* size(ledger) * ticket_cost in every reachable state, every successful
\* end_game pays exactly max_tickets * ticket_cost and leaves nothing for
\* the next round.
C19_PoolIsStake ==
    /\ [](balance = Len_(players) * ticket_cost)
    /\ [][(op'.name = "end_game" /\ result' = "OK")
           => /\ transfers' = <<[to |-> players[op'.now % max_tickets],
                                 amount |-> max_tickets * ticket_cost]>>
              /\ balance' = 0]_vars

\* C19 witness: the draw of a round of two tickets at cost 2 pays 4
C19_Witness ==
    /\ op.name = "end_game" /\ result = "OK"
    /\ ticket_cost = 2 /\ max_tickets = 2
    /\ Len(transfers) = 1 /\ transfers[1].amount = 4
    /\ balance = 0

----------------------------------------------------------------------------
(* The contract with successful purchases and draws scheduled fairly *)

BuyTicketsOK == BuyTickets /\ result' = "OK"

EndGameOK == EndGame /\ result' = "OK"

FairSpec ==
    Init /\ [][Next]_vars /\ WF_vars(BuyTicketsOK) /\ WF_vars(EndGameOK)

\* no round in progress
ConfigOpen == tickets_available = max_tickets /\ players = EmptyMap

\* some call succeeds: a paid buy_tickets(1) while tickets are left,
\* end_game when none is left
CanSucceed ==
    /\ tickets_available > 0 =>
          \E amount \in Amounts : buy_tickets(admin, amount, 1).result = "OK"
    /\ tickets_available = 0 =>
          \E now \in 0..MaxTime : end_game(admin, 0, now).result = "OK"

\* C20: in every reachable state some call can succeed, and when successful
\* buy_tickets and end_game calls are weakly fair the contract is in
\* CONFIG_OPEN (tickets_available = max_tickets, empty ledger) infinitely
\* often: every round that is started is resolved.
\* (A successful buy_tickets(0) sells nothing, so fair purchases need not
\* sell a round out.)
C20_RoundsResolve ==
    /\ []CanSucceed
    /\ []<>ConfigOpen

====
